---- MODULE Spec2Model ----
(***************************************************************************)
(* A model of the pms700x driver (src/src/lib.rs): the CommandWriter that  *)
(* serialises one 7-byte command, the SensorReader that collects one       *)
(* response frame byte by byte, SensorData::from_raw, and the Pms700X      *)
(* driver whose operations are selected by its mode tag.                   *)
(*                                                                         *)
(* Four specifications share the operators below:                          *)
(*   SpecWriter    one CommandWriter driven by write()                     *)
(*   SpecReader    one fresh SensorReader driven by fill_data()            *)
(*   Spec          the driver: every public operation, one poll per step   *)
(*   SpecBlocking  the blocking form: nb::block! polling until completion  *)
(* The serial transport is the pair (rx, tx): rx is the byte stream the    *)
(* sensor sends, rx_pos how much of it has been read, tx the bytes the     *)
(* transport has accepted.  Each transport call may also answer            *)
(* would-block or fail with the transport's error.                         *)
(***************************************************************************)
EXTENDS Integers, Sequences, FiniteSets, TLC

VARIABLES
    mode,             \* the driver's type tag, or "NoDriver" / "Dropped"
    command_writer,   \* Pms700X.command_writer
    reader,           \* Pms700X.reader
    rx,               \* the bytes the transport will deliver, in order
    rx_pos,           \* how many of them have been read
    tx,               \* the bytes the transport has accepted since the last frame
                      \* boundary (every 7th byte): a partial or a whole command frame
    overflow_checks,  \* TRUE: arithmetic overflow panics (debug); FALSE: it wraps
    scenario,         \* how rx was built (the parameters of the input)
    last,             \* what the most recent call did and returned
    history,          \* facts about earlier calls that the properties need
    pc                \* "idle", or the blocking call (into_active, into_passive) in progress

vars ==
    <<mode, command_writer, reader, rx, rx_pos, tx, overflow_checks, scenario, last,
      history, pc>>

----------------------------------------------------------------------------
(* Constants of the program *)

START_HEADER_1 == 66

START_HEADER_2 == 77

MAX_RESPONSE_SIZE == 32

U8 == 256

U16 == 65536

Byte == 0 .. (U8 - 1)

(* enum Command, #[repr(u8)] *)
Commands == {"None", "ReadPassive", "SetMode", "SetSleep"}

(* `command as u8` *)
CommandCode(c) ==
    CASE c = "None" -> 0
      [] c = "ReadPassive" -> 226
      [] c = "SetMode" -> 225
      [] c = "SetSleep" -> 228

(* enum Sleep, #[repr(u16)]: `sleeping as u16` *)
SleepCode(s) == IF s = "Sleep" THEN 0 ELSE 1

(* u16::to_le_bytes: index 0 is the low byte *)
ToLeBytes(v) == [i \in 0 .. 1 |-> IF i = 0 THEN v % U8 ELSE (v \div U8) % U8]

(* u16::from_be_bytes([hi, lo]) *)
FromBeBytes(hi, lo) == hi * U8 + lo

----------------------------------------------------------------------------
(* SensorData *)

FieldNames ==
    <<"pm10", "pm25", "pm100", "pm10_atmos", "pm25_atmos", "pm100_atmos",
      "pm03_count", "pm05_count", "pm10_count", "pm25_count", "pm50_count",
      "pm100_count">>

FromRawLittleEndian(raw) ==
    [pm10        |-> FromBeBytes(raw[5], raw[4]),
     pm25        |-> FromBeBytes(raw[7], raw[6]),
     pm100       |-> FromBeBytes(raw[9], raw[8]),
     pm10_atmos  |-> FromBeBytes(raw[11], raw[10]),
     pm25_atmos  |-> FromBeBytes(raw[13], raw[12]),
     pm100_atmos |-> FromBeBytes(raw[15], raw[14]),
     pm03_count  |-> FromBeBytes(raw[17], raw[16]),
     pm05_count  |-> FromBeBytes(raw[19], raw[18]),
     pm10_count  |-> FromBeBytes(raw[21], raw[20]),
     pm25_count  |-> FromBeBytes(raw[23], raw[22]),
     pm50_count  |-> FromBeBytes(raw[25], raw[24]),
     pm100_count |-> FromBeBytes(raw[27], raw[26])]

(* SensorData::from_raw: raw is the reader's 32-byte buffer *)
FromRaw(raw) ==
    [pm10        |-> FromBeBytes(raw[4], raw[5]),
     pm25        |-> FromBeBytes(raw[6], raw[7]),
     pm100       |-> FromBeBytes(raw[8], raw[9]),
     pm10_atmos  |-> FromBeBytes(raw[10], raw[11]),
     pm25_atmos  |-> FromBeBytes(raw[12], raw[13]),
     pm100_atmos |-> FromBeBytes(raw[14], raw[15]),
     pm03_count  |-> FromBeBytes(raw[16], raw[17]),
     pm05_count  |-> FromBeBytes(raw[18], raw[19]),
     pm10_count  |-> FromBeBytes(raw[20], raw[21]),
     pm25_count  |-> FromBeBytes(raw[22], raw[23]),
     pm50_count  |-> FromBeBytes(raw[24], raw[25]),
     pm100_count |-> FromBeBytes(raw[26], raw[27])]

----------------------------------------------------------------------------
(* SensorReader *)

(* SensorReader::default() *)
SensorReaderDefault ==
    [byte_offset |-> 0, length |-> 0, data |-> [i \in 0 .. (MAX_RESPONSE_SIZE - 1) |-> 0]]

(* `self.length + 3` in u8: overflow panics with overflow checks, wraps without *)
LengthPlus3(length, checks) ==
    IF length + 3 < U8 THEN length + 3
    ELSE IF checks THEN -1 ELSE (length + 3) % U8

FillMatchKeepsOversize(r, offset, byte, checks) ==
    CASE offset = 0 /\ byte = START_HEADER_1 -> [reader |-> r, result |-> "WouldBlock"]
      [] offset = 0 /\ byte # START_HEADER_1 ->
            [reader |-> [r EXCEPT !.byte_offset = 0], result |-> "WouldBlock"]
      [] offset = 1 /\ byte = START_HEADER_2 -> [reader |-> r, result |-> "WouldBlock"]
      [] offset = 2 /\ byte = 0 -> [reader |-> r, result |-> "WouldBlock"]
      [] offset = 2 /\ byte # 0 ->
            [reader |-> [r EXCEPT !.byte_offset = 0], result |-> "WouldBlock"]
      [] offset = 3 -> [reader |-> [r EXCEPT !.length = byte], result |-> "WouldBlock"]
      [] OTHER ->
            LET bound == LengthPlus3(r.length, checks) IN
            IF bound < 0 THEN [reader |-> r, result |-> "Panic"]
            ELSE IF offset >= bound
                 THEN [reader |-> [r EXCEPT !.byte_offset = 0], result |-> "Ok"]
                 ELSE [reader |-> r, result |-> "WouldBlock"]

(* The match of fill_data on (offset, byte), after the byte has been stored:
   r is the reader with byte_offset already incremented and the byte stored. *)
FillMatch(r, offset, byte, checks) ==
    CASE offset = 0 /\ byte = START_HEADER_1 -> [reader |-> r, result |-> "WouldBlock"]
      [] offset = 0 /\ byte # START_HEADER_1 ->
            [reader |-> [r EXCEPT !.byte_offset = 0], result |-> "WouldBlock"]
      [] offset = 1 /\ byte = START_HEADER_2 -> [reader |-> r, result |-> "WouldBlock"]
      [] offset = 2 /\ byte = 0 -> [reader |-> r, result |-> "WouldBlock"]
      [] offset = 2 /\ byte # 0 ->
            [reader |-> [r EXCEPT !.byte_offset = 0], result |-> "WouldBlock"]
      [] offset = 3 ->
            [reader |-> [r EXCEPT !.length = byte,
                                  !.byte_offset =
                                      IF byte > MAX_RESPONSE_SIZE THEN 0 ELSE r.byte_offset],
             result |-> "WouldBlock"]
      [] OTHER ->
            LET bound == LengthPlus3(r.length, checks) IN
            IF bound < 0 THEN [reader |-> r, result |-> "Panic"]
            ELSE IF offset >= bound
                 THEN [reader |-> [r EXCEPT !.byte_offset = 0], result |-> "Ok"]
                 ELSE [reader |-> r, result |-> "WouldBlock"]

(* SensorReader::fill_data once serial.read() has returned `byte`.
   store is the buffer index written, -1 when the index is out of bounds
   (the store panics and nothing is written). *)
FillData(r, byte, checks) ==
    LET offset == r.byte_offset IN
    IF offset >= MAX_RESPONSE_SIZE
    THEN [reader |-> [r EXCEPT !.byte_offset = offset + 1], result |-> "Panic", store |-> -1]
    ELSE LET m == FillMatch([r EXCEPT !.byte_offset = offset + 1, !.data[offset] = byte],
                            offset, byte, checks)
         IN  [reader |-> m.reader, result |-> m.result, store |-> offset]

RECURSIVE SumData(_, _)
(* sum of data[0 .. n-1], the loop of validate_data over data.iter().take(n) *)
SumData(data, n) ==
    IF n = 0 THEN 0 ELSE (SumData(data, n - 1) + data[n - 1]) % U16

Min(a, b) == IF a < b THEN a ELSE b

ValidateDataWholeFrame(r) ==
    LET sum == SumData(r.data, Min(r.length + 4, MAX_RESPONSE_SIZE)) IN
    IF r.length + 3 >= MAX_RESPONSE_SIZE THEN "Panic"
    ELSE IF FromBeBytes(r.data[r.length + 2], r.data[r.length + 3]) = sum
         THEN "true" ELSE "false"

ValidateDataLowByte(r) ==
    LET sum == SumData(r.data, Min(r.length + 2, MAX_RESPONSE_SIZE)) IN
    IF r.length + 3 >= MAX_RESPONSE_SIZE THEN "Panic"
    ELSE IF r.data[r.length + 3] = sum % U8 THEN "true" ELSE "false"

(* SensorReader::validate_data: "true", "false", or "Panic" when a checksum
   index is past the buffer *)
ValidateData(r) ==
    LET sum == SumData(r.data, Min(r.length + 2, MAX_RESPONSE_SIZE)) IN
    IF r.length + 3 >= MAX_RESPONSE_SIZE THEN "Panic"
    ELSE IF FromBeBytes(r.data[r.length + 2], r.data[r.length + 3]) = sum
         THEN "true" ELSE "false"

----------------------------------------------------------------------------
(* CommandWriter *)

(* CommandWriter::default() *)
CommandWriterDefault ==
    [command |-> "None", data_high |-> 0, data_low |-> 0, state |-> 0,
     verify_high |-> 0, verify_low |-> 0]

(* The checksum of a command frame, as CommandWriter::new sums it *)
Verify(command, data_bytes) ==
    (START_HEADER_1 + START_HEADER_2 + CommandCode(command)
        + data_bytes[0] + data_bytes[1]) % U16

NewSwapped(command, data) ==
    LET data_bytes == ToLeBytes(data)
        verify_bytes == ToLeBytes(Verify(command, data_bytes))
    IN  [command |-> command, data_high |-> data_bytes[0], data_low |-> data_bytes[1],
         state |-> 0, verify_high |-> verify_bytes[1], verify_low |-> verify_bytes[0]]

(* CommandWriter::new *)
CommandWriterNew(command, data) ==
    LET data_bytes == ToLeBytes(data)
        verify_bytes == ToLeBytes(Verify(command, data_bytes))
    IN  [command |-> command, data_high |-> data_bytes[1], data_low |-> data_bytes[0],
         state |-> 0, verify_high |-> verify_bytes[1], verify_low |-> verify_bytes[0]]

(* The byte write() picks for the cursor position w.state (< 7) *)
WriteByte(w) ==
    CASE w.state = 0 -> START_HEADER_1
      [] w.state = 1 -> START_HEADER_2
      [] w.state = 2 -> CommandCode(w.command)
      [] w.state = 3 -> w.data_high
      [] w.state = 4 -> w.data_low
      [] w.state = 5 -> w.verify_high
      [] w.state = 6 -> w.verify_low

(* The answers of one transport call *)
Accepted == "Ok"

TransportAnswers == {"Ok", "WouldBlock", "Err"}

(* The transport accepting the bytes `sent` (none or one): a byte that follows a
   whole 7-byte frame starts the next one. *)
Accept(t, sent) ==
    IF sent = <<>> THEN t
    ELSE IF Len(t) = 7 THEN sent ELSE t \o sent

WriteAdvancesUnaccepted(w, answer) ==
    IF w.state < 7
    THEN LET w2 == [w EXCEPT !.state = w.state + 1] IN
         IF answer = Accepted
         THEN [writer |-> w2, sent |-> <<WriteByte(w)>>,
               result |-> IF w2.state = 7 THEN "Ok" ELSE "WouldBlock"]
         ELSE [writer |-> w2, sent |-> <<>>, result |-> answer]
    ELSE [writer |-> w, sent |-> <<>>,
          result |-> IF w.state = 7 THEN "Ok" ELSE "WouldBlock"]

(* CommandWriter::write, the transport answering `answer` to serial.write:
   the writer afterwards, the result, and the bytes handed over (<<>> or one) *)
Write(w, answer) ==
    IF w.state < 7
    THEN IF answer = Accepted
         THEN LET w2 == [w EXCEPT !.state = w.state + 1] IN
              [writer |-> w2, sent |-> <<WriteByte(w)>>,
               result |-> IF w2.state = 7 THEN "Ok" ELSE "WouldBlock"]
         ELSE [writer |-> w, sent |-> <<>>, result |-> answer]
    ELSE [writer |-> w, sent |-> <<>>,
          result |-> IF w.state = 7 THEN "Ok" ELSE "WouldBlock"]

----------------------------------------------------------------------------
(* What a call leaves behind for the properties to read.  No program state. *)

NoValue == "none"

NoCall ==
    [op |-> "none", result |-> "none", fill |-> "none", valid |-> "none",
     value |-> NoValue, store |-> -1, byte |-> -1, sent |-> 0, read |-> 0,
     created |-> FALSE, slot |-> "None", flushed |-> FALSE, arg |-> "none",
     from |-> "none", fault |-> "none"]

NoHistory == [reject_pos |-> 0, commands |-> 0, tag |-> "none"]

----------------------------------------------------------------------------
(* SpecWriter: one CommandWriter, created by CommandWriter::new for a command
   and a 16-bit payload, driven by write() until and after it completes. *)

ByteSamples == {0, 1, 18, 52, 66, 77, 128, 255}

PayloadSamples == {hi * U8 + lo : hi \in ByteSamples, lo \in ByteSamples}

InitWriter ==
    /\ \E c \in Commands \ {"None"}, d \in PayloadSamples :
          /\ command_writer = CommandWriterNew(c, d)
          /\ scenario = [kind |-> "writer", command |-> c, data |-> d]
    /\ mode = "NoDriver"
    /\ reader = SensorReaderDefault
    /\ rx = <<>>
    /\ rx_pos = 0
    /\ tx = <<>>
    /\ overflow_checks \in BOOLEAN
    /\ last = NoCall
    /\ history = NoHistory
    /\ pc = "idle"

(* one call of write(), the transport answering `answer` *)
WriterCall(answer) ==
    LET w == Write(command_writer, answer) IN
    /\ command_writer' = w.writer
    /\ tx' = Accept(tx, w.sent)
    /\ last' = [NoCall EXCEPT !.op = "write", !.result = w.result, !.sent = Len(w.sent),
                              !.slot = command_writer.command,
                              !.fault = IF command_writer.state < 7 /\ answer # Accepted
                                        THEN answer ELSE "none"]
    /\ UNCHANGED <<mode, reader, rx, rx_pos, overflow_checks, scenario, history, pc>>

WriterWriteAccepted == WriterCall("Ok")

WriterWriteWouldBlock == command_writer.state < 7 /\ WriterCall("WouldBlock")

WriterWriteErr == command_writer.state < 7 /\ WriterCall("Err")

NextWriter == WriterWriteAccepted \/ WriterWriteWouldBlock \/ WriterWriteErr

SpecWriter == InitWriter /\ [][NextWriter]_vars

(* The frame of section 6 for a command and payload, written out independently
   of the writer: magic pair, code, payload big-endian, checksum big-endian. *)
WireFrame(c, d) ==
    LET hi == d \div U8
        lo == d % U8
        ck == (START_HEADER_1 + START_HEADER_2 + CommandCode(c) + hi + lo) % U16
    IN  <<START_HEADER_1, START_HEADER_2, CommandCode(c), hi, lo, ck \div U8, ck % U8>>

(* The command a code stands for *)
DecodeCommand(code) == CHOOSE c \in Commands : CommandCode(c) = code

(* C1: for every command and 16-bit payload, write() emits exactly the 7 bytes
   0x42, 0x4D, code, payload high, payload low, checksum high, checksum low, one
   per accepted byte and never more; the code and the big-endian payload decode
   back to the command and payload, and the big-endian trailing checksum is the
   16-bit sum of the first five bytes. *)
C1_WriterEmitsFrame ==
    scenario.kind = "writer" =>
        /\ Len(tx) = command_writer.state
        /\ Len(tx) <= 7
        /\ \A i \in 1 .. Len(tx) : tx[i] = WireFrame(scenario.command, scenario.data)[i]
        /\ (last.op = "write" /\ last.result = "Ok") => Len(tx) = 7
        /\ Len(tx) = 7 =>
              /\ tx[1] = 66 /\ tx[2] = 77
              /\ DecodeCommand(tx[3]) = scenario.command
              /\ FromBeBytes(tx[4], tx[5]) = scenario.data
              /\ FromBeBytes(tx[6], tx[7]) = (tx[1] + tx[2] + tx[3] + tx[4] + tx[5]) % U16

C1_Witness ==
    /\ scenario.kind = "writer"
    /\ scenario.command = "SetSleep"
    /\ scenario.data = 4660
    /\ last.result = "Ok"
    /\ tx = <<66, 77, 228, 18, 52, 1, 185>>

(* C16: a call of write() moves the cursor forward by exactly one, handing one
   byte over, when the transport accepts the byte, and leaves the writer as it
   was, handing nothing over, when the transport answers would-block or fails
   (the call then returns that answer); the cursor stays within 0 .. 7 and never
   decreases; the call reports completion exactly when the cursor is 7 after it;
   a call made with the cursor at 7 writes no byte. *)
C16_WriteCursor ==
    [][(scenario.kind = "writer" /\ last'.op = "write") =>
          /\ (command_writer.state < 7 /\ last'.fault = "none") =>
                /\ command_writer' = [command_writer EXCEPT !.state = command_writer.state + 1]
                /\ last'.sent = 1
                /\ tx' = tx \o <<WireFrame(scenario.command, scenario.data)[Len(tx) + 1]>>
          /\ last'.fault # "none" =>
                /\ command_writer.state < 7
                /\ command_writer' = command_writer
                /\ last'.sent = 0
                /\ tx' = tx
                /\ last'.result = last'.fault
          /\ command_writer.state = 7 =>
                (command_writer' = command_writer /\ last'.sent = 0 /\ tx' = tx)
          /\ command_writer'.state \in 0 .. 7
          /\ command_writer'.state >= command_writer.state
          /\ last'.result = "Ok" <=> command_writer'.state = 7
          /\ last'.result \in {"Ok", "WouldBlock", "Err"}
      ]_vars

C16_Witness ==
    /\ scenario.kind = "writer"
    /\ last.op = "write"
    /\ last.fault = "Err"
    /\ last.result = "Err"
    /\ command_writer.state = 3
    /\ Len(tx) = 3

----------------------------------------------------------------------------
(* The inputs of the reader: the byte streams a transport may deliver.
   A scenario records how a stream was built, so that a property can speak of
   "the frame" or "the measurement" that was fed. *)

SeqsUpTo(S, n) == UNION {[1 .. k -> S] : k \in 0 .. n}

RECURSIVE SumSeq(_)
SumSeq(s) == IF s = <<>> THEN 0 ELSE Head(s) + SumSeq(Tail(s))

ZeroData == [n \in {FieldNames[k] : k \in 1 .. 12} |-> 0]

(* the measurement of the concrete scenario of section 8 *)
C6Fields ==
    [pm10 |-> 10, pm25 |-> 20, pm100 |-> 30, pm10_atmos |-> 11, pm25_atmos |-> 21,
     pm100_atmos |-> 31, pm03_count |-> 1, pm05_count |-> 2, pm10_count |-> 3,
     pm25_count |-> 4, pm50_count |-> 5, pm100_count |-> 6]

FieldValueSamples == {0, 1, 255, 256, 4660, 16973, 65535}

BackgroundSamples == {0, 43981}

(* a measurement whose k-th field is v and whose other fields are bg *)
DataWith(k, v, bg) ==
    [n \in {FieldNames[j] : j \in 1 .. 12} |-> IF n = FieldNames[k] THEN v ELSE bg]

SensorDataSamples ==
    {C6Fields} \cup
    {DataWith(k, v, bg) : k \in 1 .. 12, v \in FieldValueSamples, bg \in BackgroundSamples}

(* the twelve fields big-endian, in the order of the wire format *)
FieldBytes(d) ==
    [i \in 1 .. 24 |->
        LET v == d[FieldNames[(i + 1) \div 2]] IN
        IF i % 2 = 1 THEN v \div U8 ELSE v % U8]

(* a response frame carrying d: header with length field L, the fields, pad,
   and the big-endian sum of every byte before the checksum *)
ResponseFrame(d, pad, L) ==
    LET body == <<START_HEADER_1, START_HEADER_2, 0, L>> \o FieldBytes(d) \o pad
        ck == SumSeq(body) % U16
    IN  body \o <<ck \div U8, ck % U8>>

PayloadFills == {"ramp", "magic", "ones"}

PayloadByte(fill, i) ==
    CASE fill = "ramp" -> i
      [] fill = "magic" -> IF i % 2 = 1 THEN START_HEADER_1 ELSE START_HEADER_2
      [] fill = "ones" -> 255

(* a well-formed frame of declared length L: offsets 0 .. L+3 *)
Frame(L, fill) ==
    <<START_HEADER_1, START_HEADER_2, 0, L>> \o [i \in 1 .. L |-> PayloadByte(fill, i)]

(* a frame of declared length L with a correct checksum in its last two bytes
   (L >= 2): L-2 payload bytes, then the sum of all bytes before the checksum *)
ValidFrame(L, fill) ==
    LET body == <<START_HEADER_1, START_HEADER_2, 0, L>>
                    \o [i \in 1 .. (L - 2) |-> PayloadByte(fill, i)]
        ck == SumSeq(body) % U16
    IN  body \o <<ck \div U8, ck % U8>>

MaxPrefix == 2

MaxStream == 5

NoiseBytes == {0, 77, 255}

StreamBytes == {66, 77, 0, 1, 33}

OversizeLengths == {33, 34, 128, 252, 253, 254, 255}

OversizeTails ==
    {<<>>, <<1, 2, 3>>, <<66, 0>>, <<66, 0, 0, 2, 0, 70>>, ValidFrame(2, "ramp"),
     Frame(29, "ones"), <<66, 77, 0, 40, 66, 77>>}

Scn(kind, prefix, L, fill, fields, pad, tail) ==
    [kind |-> kind, prefix |-> prefix, L |-> L, fill |-> fill, fields |-> fields,
     pad |-> pad, tail |-> tail]

PrefixedScenarios ==
    {Scn("prefixed", p, L, f, ZeroData, <<>>, <<>>) :
        p \in SeqsUpTo(NoiseBytes, MaxPrefix), L \in 0 .. MAX_RESPONSE_SIZE,
        f \in PayloadFills}

(* pad <<>>: the fields and the checksum, length field 26.
   pad of 2:  the sensor's frame, two reserved bytes before the checksum,
              length field 28. *)
MeasurementScenarios ==
    {Scn("measurement", <<>>, 24 + Len(pad) + 2, "none", d, pad, <<>>) :
        d \in SensorDataSamples, pad \in {<<>>, <<0, 0>>, <<151, 66>>}}

(* The 34 bytes of the concrete scenario read literally: 42 4D 00 1C, 28 payload
   bytes (the 24 field bytes and 4 zero bytes), then the checksum. *)
Claimed34Scenario == Scn("claimed34", <<>>, 28, "none", C6Fields, <<0, 0, 0, 0>>, <<>>)

RawScenarios ==
    {Scn("raw", <<>>, 0, "none", ZeroData, <<>>, t) : t \in SeqsUpTo(StreamBytes, MaxStream)}
    \cup
    {Scn("raw", <<>>, L, "none", ZeroData, <<>>, <<START_HEADER_1, START_HEADER_2, 0, L>> \o t) :
        L \in OversizeLengths, t \in OversizeTails}

ReaderScenarios ==
    PrefixedScenarios \cup MeasurementScenarios \cup {Claimed34Scenario} \cup RawScenarios

(* the byte stream of a scenario *)
Input(scn) ==
    CASE scn.kind = "prefixed" -> scn.prefix \o Frame(scn.L, scn.fill)
      [] scn.kind \in {"measurement", "claimed34"} -> ResponseFrame(scn.fields, scn.pad, scn.L)
      [] scn.kind = "raw" -> scn.tail

----------------------------------------------------------------------------
(* SpecReader: a fresh SensorReader; each step is one call of fill_data on the
   transport, or one call of validate_data followed by from_raw. *)

InitReader ==
    /\ scenario \in ReaderScenarios
    /\ rx = Input(scenario)
    /\ rx_pos = 0
    /\ reader = SensorReaderDefault
    /\ overflow_checks \in BOOLEAN
    /\ mode = "NoDriver"
    /\ command_writer = CommandWriterDefault
    /\ tx = <<>>
    /\ last = NoCall
    /\ history = NoHistory
    /\ pc = "idle"

Panicked == last.result = "Panic"

(* what history keeps of a fill_data call that consumed `byte` *)
NoteFill(h, f, byte, pos) ==
    IF f.store = 3 /\ byte > MAX_RESPONSE_SIZE THEN [h EXCEPT !.reject_pos = pos] ELSE h

(* fill_data, serial.read() returning the next byte of the stream *)
ReaderFillByte ==
    /\ ~Panicked
    /\ rx_pos < Len(rx)
    /\ LET byte == rx[rx_pos + 1]
           f == FillData(reader, byte, overflow_checks)
       IN  /\ reader' = f.reader
           /\ rx_pos' = rx_pos + 1
           /\ last' = [NoCall EXCEPT !.op = "fill_data", !.result = f.result,
                                     !.fill = f.result, !.store = f.store,
                                     !.byte = byte, !.read = 1]
           /\ history' = NoteFill(history, f, byte, rx_pos + 1)
    /\ UNCHANGED <<mode, command_writer, rx, tx, overflow_checks, scenario, pc>>

(* fill_data, serial.read() answering would-block or failing: `?` returns at once *)
ReaderFillNoByte(answer) ==
    /\ ~Panicked
    /\ last' = [NoCall EXCEPT !.op = "fill_data", !.result = answer, !.fill = answer,
                              !.fault = answer]
    /\ UNCHANGED <<mode, command_writer, reader, rx, rx_pos, tx, overflow_checks,
                   scenario, history, pc>>

ReaderFillWouldBlock == ReaderFillNoByte("WouldBlock")

ReaderFillErr == ReaderFillNoByte("Err")

(* validate_data, and from_raw when it holds, on the buffered bytes *)
ReaderValidate ==
    /\ ~Panicked
    /\ last.op = "fill_data" /\ last.read = 1
    /\ LET v == ValidateData(reader) IN
       last' = [NoCall EXCEPT !.op = "validate_data",
                              !.result = IF v = "Panic" THEN "Panic" ELSE "Ok",
                              !.fill = last.fill, !.valid = v,
                              !.value = IF v = "true" THEN FromRaw(reader.data) ELSE NoValue]
    /\ UNCHANGED <<mode, command_writer, reader, rx, rx_pos, tx, overflow_checks,
                   scenario, history, pc>>

NextReader == ReaderFillByte \/ ReaderFillWouldBlock \/ ReaderFillErr \/ ReaderValidate

SpecReader == InitReader /\ [][NextReader]_vars

----------------------------------------------------------------------------
(* Properties of the reader, under SpecReader *)

(* the last call was a fill_data that consumed a byte *)
Consumed == last.op = "fill_data" /\ last.read = 1

(* C3: from a fresh reader, a prefix of bytes other than 0x42 followed by a
   well-formed frame of declared length L <= 32 makes fill_data answer not-ready
   on every byte but the frame's last (offset L+3), on which it reports a
   complete frame; the buffer then holds the frame's bytes at their offsets, the
   stored length is L and the cursor is 0. *)
C3_PrefixThenFrame ==
    (scenario.kind = "prefixed" /\ Consumed) =>
        IF rx_pos < Len(rx)
        THEN last.result = "WouldBlock"
        ELSE /\ last.result = "Ok"
             /\ reader.byte_offset = 0
             /\ reader.length = scenario.L
             /\ scenario.L + 3 < MAX_RESPONSE_SIZE
             /\ \A i \in 0 .. (scenario.L + 3) :
                   reader.data[i] = rx[Len(scenario.prefix) + 1 + i]

(* C4: when fill_data consumes at offset 3 a length byte greater than 32, the
   cursor is 0 after that step, the byte that follows is stored at index 0, and
   no byte is ever stored at a buffer index of 32 or more. *)
C4_OversizeResync ==
    /\ (Consumed /\ last.store = 3 /\ last.byte > MAX_RESPONSE_SIZE) =>
          /\ reader.byte_offset = 0
          /\ last.result = "WouldBlock"
          /\ history.reject_pos = rx_pos
    /\ (Consumed /\ history.reject_pos > 0 /\ rx_pos = history.reject_pos + 1) =>
          last.store = 0
    /\ Consumed => (last.store < MAX_RESPONSE_SIZE /\ (last.store >= 0 \/ Panicked))
    /\ reader.byte_offset <= MAX_RESPONSE_SIZE + 1

C4_Witness ==
    /\ history.reject_pos > 0
    /\ rx_pos >= history.reject_pos + 3
    /\ Consumed
    /\ last.store = 2
    /\ ~Panicked

(* C5: round trip.  A response frame built for a measurement (header, length
   field counting the bytes after it, the twelve fields big-endian at offsets
   4-27, trailing checksum) and fed byte by byte to a fresh reader completes on
   its last byte and on none before; validate_data then holds and from_raw gives
   back the measurement field by field. *)
C5_RoundTrip ==
    scenario.kind = "measurement" =>
        /\ Consumed =>
              /\ last.result = (IF rx_pos = Len(rx) THEN "Ok" ELSE "WouldBlock")
              /\ rx_pos = Len(rx) =>
                    /\ ValidateData(reader) = "true"
                    /\ FromRaw(reader.data) = scenario.fields
        /\ (last.op = "validate_data" /\ rx_pos = Len(rx)) =>
              /\ last.valid = "true"
              /\ last.value = scenario.fields
              /\ \A k \in 1 .. 12 : last.value[FieldNames[k]] = scenario.fields[FieldNames[k]]

C5_Witness ==
    /\ scenario.kind = "measurement"
    /\ scenario.pad = <<>>
    /\ scenario.fields = DataWith(7, 16973, 43981)
    /\ last.op = "validate_data"
    /\ rx_pos = 30
    /\ last.value.pm03_count = 16973
    /\ last.value.pm05_count = 43981

(* C6 as stated: the 34 bytes 42 4D 00 1C, 28 payload bytes, checksum, fed one
   at a time, complete on the 34th byte and on no earlier one; validate_data
   then holds and from_raw gives the twelve values. *)
C6_Complete34 ==
    (scenario.kind = "claimed34" /\ Consumed) =>
        /\ Len(rx) = 34
        /\ last.result = (IF rx_pos = 34 THEN "Ok" ELSE "WouldBlock")
        /\ rx_pos = 34 =>
              (ValidateData(reader) = "true" /\ FromRaw(reader.data) = C6Fields)

(* C6, amended: the 32 bytes 42 4D 00 1C, 26 payload bytes (the 24 field bytes
   and two reserved bytes), checksum of the preceding 30 bytes, fed one at a
   time, complete on the 32nd byte and on no earlier one; validate_data then
   holds and from_raw gives the twelve values. *)
C6_Complete32 ==
    (scenario.kind = "measurement" /\ scenario.fields = C6Fields /\ scenario.L = 28) =>
        /\ Len(rx) = 32
        /\ SubSeq(rx, 1, 4) = <<66, 77, 0, 28>>
        /\ FromBeBytes(rx[31], rx[32]) = SumSeq(SubSeq(rx, 1, 30))
        /\ Consumed =>
              /\ last.result = (IF rx_pos = 32 THEN "Ok" ELSE "WouldBlock")
              /\ rx_pos = 32 => \A i \in 0 .. 31 : reader.data[i] = rx[i + 1]
        /\ (last.op = "validate_data" /\ rx_pos = 32) =>
              /\ last.valid = "true"
              /\ last.value = C6Fields

C6_Witness ==
    /\ scenario.kind = "measurement"
    /\ scenario.fields = C6Fields
    /\ scenario.pad = <<0, 0>>
    /\ rx_pos = 32
    /\ last.op = "validate_data"
    /\ last.fill = "Ok"
    /\ last.valid = "true"
    /\ last.value.pm100_count = 6

(* the reader with the buffer byte at index i replaced by b *)
WithByte(r, i, b) == [r EXCEPT !.data[i] = b]

(* the sum of the buffered bytes at offsets 0 .. n-1, added up front to back *)
SumOfBuffer(data, n) == SumSeq([i \in 1 .. n |-> data[i - 1]])

(* a completed frame has just been validated *)
Validated == last.op = "validate_data" /\ last.fill = "Ok"

(* C12: validate_data is true exactly when the big-endian 16-bit value at buffer
   offsets length+2 and length+3 equals the sum of the bytes at offsets
   0 .. length+1; and for a completed frame that validates, replacing either of
   those two bytes by any different value makes validate_data false. *)
C12_ChecksumDetectsFlip ==
    /\ reader.length + 3 < MAX_RESPONSE_SIZE =>
          (ValidateData(reader) = "true" <=>
              FromBeBytes(reader.data[reader.length + 2], reader.data[reader.length + 3])
                  = SumOfBuffer(reader.data, reader.length + 2))
    /\ Validated => last.valid = ValidateData(reader)
    /\ (Validated /\ last.valid = "true") =>
          \A k \in {2, 3} : \A b \in Byte \ {reader.data[reader.length + k]} :
              ValidateData(WithByte(reader, reader.length + k, b)) = "false"

C12_Witness ==
    /\ Validated
    /\ last.valid = "true"
    /\ scenario.kind = "measurement"
    /\ scenario.fields = DataWith(3, 65535, 43981)
    /\ reader.length = 28
    /\ reader.data[30] * U8 + reader.data[31] > U8

(* C13: when fill_data consumes at offset 1 a byte other than 0x4D the cursor is
   0 after that step; the cursor is at 2 or beyond only while the buffer starts
   with 0x42, 0x4D; and when a frame is reported complete the buffer starts with
   0x42, 0x4D, 0x00. *)
C13_SecondMagicReset ==
    /\ (Consumed /\ last.store = 1 /\ last.byte # START_HEADER_2) => reader.byte_offset = 0
    /\ reader.byte_offset >= 2 =>
          (reader.data[0] = START_HEADER_1 /\ reader.data[1] = START_HEADER_2)
    /\ (Consumed /\ last.result = "Ok") =>
          /\ reader.data[0] = START_HEADER_1
          /\ reader.data[1] = START_HEADER_2
          /\ reader.data[2] = 0

(* the indices of the reader's buffer *)
BufferIndices == 0 .. (MAX_RESPONSE_SIZE - 1)

(* C14: the index at which fill_data stores the incoming byte is within the
   32-byte buffer, and so are the checksum indices length+2 and length+3 that
   validate_data reads after a frame is reported complete. *)
C14_IndexInBounds ==
    /\ Consumed => last.store \in BufferIndices
    /\ (Consumed /\ last.result = "Ok") =>
          (reader.length + 2 \in BufferIndices /\ reader.length + 3 \in BufferIndices)
    /\ Validated => last.valid # "Panic"

(* the position in the stream of the frame's byte at offset k *)
FramePos(k) == Len(scenario.prefix) + k + 1

(* C15: for a declared length L in 0 .. 32, after the header 0x42, 0x4D, 0x00, L
   fill_data reports a complete frame when it consumes the byte at offset L+3 and
   on no other byte; in that step the cursor becomes 0 while the stored length
   is L and the buffer holds the frame. *)
C15_CompletesAtLengthPlus3 ==
    (scenario.kind = "prefixed" /\ Consumed /\ rx_pos >= FramePos(0)) =>
        /\ last.result = "Ok" <=> rx_pos = FramePos(scenario.L + 3)
        /\ last.result # "Ok" => last.result = "WouldBlock"
        /\ last.result = "Ok" =>
              /\ last.store = scenario.L + 3
              /\ reader.byte_offset = 0
              /\ reader.length = scenario.L
              /\ \A i \in 0 .. (scenario.L + 3) : reader.data[i] = rx[FramePos(i)]

----------------------------------------------------------------------------
(* The driver, Pms700X<Error, Serial, Mode> *)

Modes == {"UnInitialized", "Active", "Passive"}

(* impl<.., SensorMode: Mode> Pms700X<Error, Serial, SensorMode>: the modes whose
   driver has send_command, into_active, into_passive and set_sleeping *)
HasModeOperations(m) == m \in Modes

(* the read() a driver with tag m has: the impl for Active, the impl for
   Passive, or none *)
ReadImpl(m) ==
    CASE m = "Active" -> "Active"
      [] m = "Passive" -> "Passive"
      [] OTHER -> "none"

WriterForAlwaysNew(cw, command, data) == CommandWriterNew(command, data)

(* send_command, its first statement: a writer is created only when the command
   slot is None; otherwise the writer in flight is kept *)
WriterFor(cw, command, data) ==
    IF cw.command = "None" THEN CommandWriterNew(command, data) ELSE cw

SendCommandReadsEarly(cw, rd, command, data, expect_answer, aw, af, ar, byte, checks) ==
    LET w0 == WriterFor(cw, command, data)
        wr == Write(w0, aw)
        base == [writer |-> wr.writer, reader |-> rd, sent |-> wr.sent, read |-> 0,
                 result |-> wr.result, fill |-> "none", store |-> -1,
                 created |-> (cw.command = "None"), flushed |-> FALSE,
                 fault |-> IF w0.state < 7 /\ aw # Accepted THEN aw ELSE "none"]
        f == FillData(rd, byte, checks)
    IN  IF aw # "Ok" \/ af # "Ok" \/ ar # "Ok" \/ ~expect_answer THEN base
        ELSE [base EXCEPT !.reader = f.reader, !.read = 1, !.fill = f.result,
                          !.store = f.store, !.flushed = TRUE,
                          !.result = IF wr.result = "Ok" THEN f.result ELSE wr.result]

(* send_command, one call.  aw, af, ar are the transport's answers to
   serial.write, serial.flush and serial.read should the call get to them, and
   byte the byte serial.read returns when ar is "Ok". *)
SendCommand(cw, rd, command, data, expect_answer, aw, af, ar, byte, checks) ==
    LET w0 == WriterFor(cw, command, data)
        wr == Write(w0, aw)
        base == [writer |-> wr.writer, reader |-> rd, sent |-> wr.sent, read |-> 0,
                 result |-> wr.result, fill |-> "none", store |-> -1,
                 created |-> (cw.command = "None"), flushed |-> FALSE,
                 fault |-> IF w0.state < 7 /\ aw # Accepted THEN aw ELSE "none"]
        done == [base EXCEPT !.writer = [wr.writer EXCEPT !.command = "None"],
                             !.result = "Ok", !.flushed = TRUE]
    IN  IF wr.result # "Ok" THEN base
        ELSE IF af # "Ok" THEN [base EXCEPT !.result = af, !.fault = af]
        ELSE IF ~expect_answer THEN done
        ELSE IF ar # "Ok"
             THEN [base EXCEPT !.result = ar, !.fill = ar, !.flushed = TRUE, !.fault = ar]
        ELSE LET f == FillData(rd, byte, checks) IN
             IF f.result # "Ok"
             THEN [base EXCEPT !.reader = f.reader, !.read = 1, !.result = f.result,
                               !.fill = f.result, !.store = f.store, !.flushed = TRUE]
             ELSE [done EXCEPT !.reader = f.reader, !.read = 1, !.fill = "Ok",
                               !.store = f.store]

(* How the transport behaves during one call: it serves every request, or one
   of write, flush and read answers would-block or fails. *)
TransportBehaviours ==
    {[write |-> "Ok", flush |-> "Ok", read |-> "Ok"]}
    \cup {[write |-> a, flush |-> "Ok", read |-> "Ok"] : a \in {"WouldBlock", "Err"}}
    \cup {[write |-> "Ok", flush |-> a, read |-> "Ok"] : a \in {"WouldBlock", "Err"}}
    \cup {[write |-> "Ok", flush |-> "Ok", read |-> a] : a \in {"WouldBlock", "Err"}}

(* The streams the sensor may send to a driver: a first response followed by a
   second one.  Short frames (declared length 2 and 4, correct checksum), a frame
   with a wrong checksum, a header with declared length 253 followed by 0x42 0x00,
   and the measurement frame of section 8. *)
CorruptLast(f) == [f EXCEPT ![Len(f)] = (f[Len(f)] + 1) % U8]

ShortFrame == ValidFrame(2, "ramp")

LongerFrame == ValidFrame(4, "ramp")

MeasurementFrame == ResponseFrame(C6Fields, <<0, 0>>, 28)

DriverStreams ==
    {a \o b : a \in {ShortFrame, LongerFrame},
              b \in {ShortFrame, CorruptLast(ShortFrame), <<66, 77, 0, 253, 66, 0>>}}
    \cup {ShortFrame \o MeasurementFrame, MeasurementFrame \o ShortFrame}

DriverScenarios ==
    {Scn("driver", <<>>, 0, "none", ZeroData, <<>>, t) : t \in DriverStreams}

(* Pms700X::new(serial): every behaviour is the life of one driver, from its
   construction until it is dropped (mode "Dropped": into_active or into_passive
   returned the transport's error, and the driver went with the call). *)
Init ==
    /\ scenario \in DriverScenarios
    /\ rx = scenario.tail
    /\ rx_pos = 0
    /\ tx = <<>>
    /\ mode = "UnInitialized"
    /\ command_writer = CommandWriterDefault
    /\ reader = SensorReaderDefault
    /\ overflow_checks \in BOOLEAN
    /\ last = NoCall
    /\ history = NoHistory
    /\ pc = "idle"

(* a driver exists and the program has not panicked *)
Alive == mode \in Modes /\ ~Panicked

(* One call of send_command made by operation op: the program state after it,
   whatever the transport answers. *)
SendPoll(op, arg, command, data, expect_answer) ==
    /\ \E t \in TransportBehaviours :
          \* a transport with nothing left to deliver answers would-block to read
          \E ar \in {IF t.read = "Ok" /\ rx_pos >= Len(rx) THEN "WouldBlock" ELSE t.read} :
          \E byte \in {IF rx_pos < Len(rx) THEN rx[rx_pos + 1] ELSE 0} :
          \E s \in {SendCommand(command_writer, reader, command, data, expect_answer,
                                t.write, t.flush, ar, byte, overflow_checks)} :
                 /\ command_writer' = s.writer
                 /\ reader' = s.reader
                 /\ tx' = Accept(tx, s.sent)
                 /\ rx_pos' = rx_pos + s.read
                 /\ last' = [NoCall EXCEPT
                                !.op = op, !.arg = arg, !.from = mode, !.result = s.result,
                                !.fill = s.fill, !.store = s.store, !.sent = Len(s.sent),
                                !.read = s.read, !.created = s.created,
                                !.slot = command_writer.command, !.flushed = s.flushed,
                                !.byte = IF s.read = 1 THEN byte ELSE -1,
                                !.fault = s.fault,
                                !.value = IF op = "read" /\ s.result = "Ok"
                                          THEN FromRaw(s.reader.data) ELSE NoValue]
    /\ UNCHANGED <<rx, overflow_checks, scenario, history>>

(* into_active / into_passive: nb::block! polls send_command(SetMode, ..) until it
   is Ok or fails; on Ok the driver is returned with the new tag, on an error it
   is dropped with the call.  One step is one iteration of that loop. *)
IntoMode(op, data, target) ==
    /\ Alive
    /\ HasModeOperations(mode)
    /\ pc \in {"idle", op}
    /\ SendPoll(op, "none", "SetMode", data, TRUE)
    /\ mode' = CASE last'.result = "Ok" -> target
                 [] last'.result = "Err" -> "Dropped"
                 [] OTHER -> mode
    /\ pc' = IF last'.result = "WouldBlock" THEN op ELSE "idle"

IntoActive == IntoMode("into_active", 1, "Active")

IntoPassive == IntoMode("into_passive", 0, "Passive")

(* set_sleeping(sleeping), one call *)
SetSleeping ==
    /\ Alive
    /\ HasModeOperations(mode)
    /\ pc = "idle"
    /\ \E sleeping \in {"Sleep", "Wakeup"} :
          SendPoll("set_sleeping", sleeping, "SetSleep", SleepCode(sleeping),
                   sleeping = "Sleep")
    /\ UNCHANGED <<mode, pc>>

(* Pms700X<_, _, Passive>::read, one call *)
ReadPassive ==
    /\ Alive
    /\ ReadImpl(mode) = "Passive"
    /\ pc = "idle"
    /\ SendPoll("read", "none", "ReadPassive", 0, TRUE)
    /\ UNCHANGED <<mode, pc>>

(* Pms700X<_, _, Active>::read, one call *)
ReadActive ==
    /\ Alive
    /\ ReadImpl(mode) = "Active"
    /\ pc = "idle"
    /\ \E ar \in TransportAnswers :
          /\ ar = "Ok" => rx_pos < Len(rx)
          /\ IF ar # "Ok"
             THEN /\ last' = [NoCall EXCEPT !.op = "read", !.from = mode, !.result = ar,
                                            !.fill = ar, !.fault = ar,
                                            !.slot = command_writer.command]
                  /\ UNCHANGED <<reader, rx_pos>>
             ELSE \E byte \in {rx[rx_pos + 1]} :
                  \E f \in {FillData(reader, byte, overflow_checks)} :
                  \E v \in {IF f.result = "Ok" THEN ValidateData(f.reader) ELSE "none"} :
                      /\ reader' = f.reader
                      /\ rx_pos' = rx_pos + 1
                      /\ last' = [NoCall EXCEPT
                                     !.op = "read", !.from = mode, !.fill = f.result,
                                     !.store = f.store, !.byte = byte, !.read = 1,
                                     !.valid = v, !.slot = command_writer.command,
                                     !.result = CASE f.result # "Ok" -> f.result
                                                  [] v = "true" -> "Ok"
                                                  [] v = "false" -> "WouldBlock"
                                                  [] OTHER -> "Panic",
                                     !.value = IF v = "true" THEN FromRaw(f.reader.data)
                                               ELSE NoValue]
    /\ UNCHANGED <<mode, command_writer, rx, tx, overflow_checks, scenario, history, pc>>

Next == IntoActive \/ IntoPassive \/ SetSleeping \/ ReadActive \/ ReadPassive

Spec == Init /\ [][Next]_vars

----------------------------------------------------------------------------
(* Properties of the driver, under Spec *)

IntoOps == {"into_active", "into_passive"}

TargetOf(op) == IF op = "into_active" THEN "Active" ELSE "Passive"

(* C2: a mode transition is made only on a driver in the UnInitialized mode (so
   never after an earlier transition of the same driver), and read() is called
   only in Active or Passive mode. *)
C2_TransitionOnlyFromUnInitialized ==
    /\ last.op \in IntoOps => last.from = "UnInitialized"
    /\ last.op = "read" => last.from \in {"Active", "Passive"}

(* What the code does with the mode tag: a mode transition is accepted on a
   driver of any mode and consumes it: on success the driver comes back with the
   tag of the new mode, on a transport error it is dropped, while it polls the
   tag is unchanged; no other operation changes the tag; read() is available
   only in Active or Passive mode, where it is the read of that mode. *)
ModeTagDiscipline ==
    /\ last.op \in IntoOps =>
          /\ last.from \in Modes
          /\ last.result = "Ok" => (mode = TargetOf(last.op) /\ pc = "idle")
          /\ last.result = "Err" => mode = "Dropped"
          /\ last.result = "WouldBlock" => (mode = last.from /\ pc = last.op)
    /\ last.op \in {"set_sleeping", "read"} => (mode = last.from /\ mode \in Modes)
    /\ last.op = "read" => last.from \in {"Active", "Passive"}
    /\ (last.op = "read" /\ last.from = "Active") => (last.sent = 0 /\ ~last.created)
    /\ last.op = "none" => mode = "UnInitialized"

TransitionFromPassive ==
    /\ last.op = "into_active"
    /\ last.from = "Passive"
    /\ last.result = "Ok"
    /\ mode = "Active"

(* C7: in Active mode read() returns a measurement only in a call in which
   fill_data has just reported a complete frame and validate_data holds for the
   buffered frame; every other call returns not-ready or the transport's error;
   no call writes a byte to the transport. *)
C7_ActiveRead ==
    (last.op = "read" /\ last.from = "Active") =>
        /\ last.result = "Ok" =>
              (last.fill = "Ok" /\ last.valid = "true" /\ last.value = FromRaw(reader.data))
        /\ ~(last.fill = "Ok" /\ last.valid = "true") => last.result \in {"WouldBlock", "Err"}
        /\ last.result = "Err" => last.fill = "Err"
        /\ last.sent = 0

(* C8: whenever Passive read() returns a measurement, the checksum of the frame
   in the reader buffer holds (validate_data is true). *)
C8_PassiveReadValidated ==
    (last.op = "read" /\ last.from = "Passive" /\ last.result = "Ok") =>
        ValidateData(reader) = "true"

(* C9: set_sleeping(Sleep) transmits the SetSleep frame with payload 0 and
   reports completion only in a call in which the reader has completed a response
   frame; set_sleeping(Wakeup) transmits the SetSleep frame with payload 1,
   reports completion once the 7 bytes are written and flushed, and never reads a
   byte or touches the reader. *)
C9_SetSleeping ==
    last.op = "set_sleeping" =>
        /\ last.arg = "Wakeup" => (last.read = 0 /\ last.fill = "none" /\ last.store = -1)
        /\ last.result = "Ok" =>
              /\ tx = WireFrame("SetSleep", SleepCode(last.arg))
              /\ last.flushed
              /\ last.arg = "Sleep" => last.fill = "Ok"

(* a 7-byte frame of some command: magic pair, a command code, two payload
   bytes, and the big-endian sum of those five bytes *)
IsCommandFrame(f) ==
    /\ Len(f) = 7
    /\ f[1] = START_HEADER_1 /\ f[2] = START_HEADER_2
    /\ f[3] \in {CommandCode(c) : c \in Commands \ {"None"}}
    /\ FromBeBytes(f[6], f[7]) = (f[1] + f[2] + f[3] + f[4] + f[5]) % U16

(* t is the beginning of the frame of command c with payload d *)
IsPrefixOf(t, c, d) ==
    /\ Len(t) <= 7
    /\ \A i \in 1 .. Len(t) : t[i] = WireFrame(c, d)[i]

(* C10: whatever calls are made and whatever the transport answers, the bytes
   handed to the transport are whole 7-byte command frames followed by at most
   one proper prefix of a frame: the bytes since the last frame boundary are the
   beginning of the frame of the one command in flight, at its cursor, and a
   CommandWriter is created only when the command slot is None. *)
C10_NoInterleaving ==
    /\ Len(tx) <= 7
    /\ Len(tx) = 7 => IsCommandFrame(tx)
    /\ \E c \in Commands \ {"None"}, d \in {0, 1} : IsPrefixOf(tx, c, d)
    /\ command_writer.state \in 1 .. 6 =>
          /\ command_writer.command # "None"
          /\ Len(tx) = command_writer.state
          /\ IsPrefixOf(tx, command_writer.command,
                        FromBeBytes(command_writer.data_high, command_writer.data_low))
    /\ command_writer.state \in {0, 7} => Len(tx) \in {0, 7}
    /\ last.created => last.slot = "None"
    /\ last.sent = 1 => (last.created \/ last.slot # "None")

C10_Witness ==
    /\ last.op = "read"
    /\ last.from = "Passive"
    /\ last.slot = "SetSleep"
    /\ last.sent = 1
    /\ last.result = "WouldBlock"
    /\ tx = <<66, 77, 228, 0, 1>>

(* the outcomes a call may have: complete, not-ready, the transport's error *)
CallOutcomes == {"Ok", "WouldBlock", "Err"}

(* C11: every call of into_active, into_passive, set_sleeping and read() (each
   one call of send_command or of fill_data) ends complete, not-ready or with the
   transport's error; it ends with an error exactly when the transport's write,
   flush or read failed in that call; and a read() whose completed frame has a
   wrong checksum answers not-ready. *)
C11_NoProtocolErrors ==
    last.op # "none" =>
        /\ last.result \in CallOutcomes
        /\ last.result = "Err" <=> last.fault = "Err"
        /\ (last.op = "read" /\ last.fill = "Ok" /\ ValidateData(reader) # "true") =>
              last.result = "WouldBlock"

(* the operations that are one call of send_command, and whether the call
   passes expect_answer = true *)
IsSendCall(c) == c.op \in IntoOps \cup {"set_sleeping"} \/ (c.op = "read" /\ c.from = "Passive")

ExpectsAnswer(c) == c.op # "set_sleeping" \/ c.arg = "Sleep"

(* C17: in a call of send_command a byte is read, and the reader changes, only
   when all 7 command bytes have been accepted and the flush of this call has
   succeeded; a call made while the response is awaited (cursor at 7) sends no
   byte; the command slot is None after a call exactly when the call reports
   completion, which with expect_answer = true is the call in which fill_data
   completes the response frame and otherwise the call whose flush succeeds. *)
C17_WriteFlushThenRead ==
    [][IsSendCall(last') =>
          /\ (last'.read = 1 \/ reader' # reader) =>
                /\ last'.read = 1
                /\ ExpectsAnswer(last')
                /\ last'.flushed
                /\ Len(tx') = 7
                /\ IF last'.fill = "Ok" THEN command_writer'.state = 7 /\ last'.result = "Ok"
                   ELSE command_writer'.state = 7 /\ command_writer'.command # "None"
          /\ last'.read = 0 => rx_pos' = rx_pos
          /\ (command_writer.command # "None" /\ command_writer.state = 7) =>
                (last'.sent = 0 /\ tx' = tx)
          /\ command_writer'.command = "None" <=> last'.result = "Ok"
          /\ last'.result = "Ok" =>
                /\ last'.flushed
                /\ Len(tx') = 7
                /\ ExpectsAnswer(last') <=> last'.fill = "Ok"
      ]_vars

C17_Witness ==
    /\ last.op = "into_passive"
    /\ last.read = 1
    /\ last.sent = 0
    /\ last.fill = "WouldBlock"
    /\ last.flushed
    /\ command_writer.state = 7
    /\ command_writer.command = "SetMode"
    /\ tx = <<66, 77, 225, 0, 0, 1, 112>>
    /\ rx_pos = 3

(* the command and the payload an operation passes to send_command *)
RequestedCommand(c) ==
    CASE c.op \in IntoOps -> "SetMode"
      [] c.op = "set_sleeping" -> "SetSleep"
      [] OTHER -> "ReadPassive"

RequestedData(c) ==
    CASE c.op = "into_active" -> 1
      [] c.op = "set_sleeping" -> SleepCode(c.arg)
      [] OTHER -> 0

(* C18: when an operation that issues a command reports completion, the frame
   last completed on the transport is the frame of the command and payload that
   the operation asked for; Passive read() returns a measurement only with the
   ReadPassive frame (code 0xE2, payload 0) as the last frame sent. *)
C18_CompletesRequestedCommand ==
    (IsSendCall(last) /\ last.result = "Ok") =>
        /\ tx = WireFrame(RequestedCommand(last), RequestedData(last))
        /\ last.op = "read" => tx = <<66, 77, 226, 0, 0, 1, 113>>

(* the buffer offsets from_raw decodes *)
FieldOffsets == 4 .. 27

(* the position in the stream of the byte at offset i of the frame that was
   completed by the byte just read *)
CompletedFramePos(i) == rx_pos - (reader.length + 3) + i

(* C20: when Active read() returns a measurement, every buffer offset that
   from_raw decodes (4 .. 27) lies within the frame that has just completed
   (offsets 0 .. length+3) and holds the byte of that frame. *)
C20_FieldsFromCompletedFrame ==
    (last.op = "read" /\ last.from = "Active" /\ last.result = "Ok") =>
        \A i \in FieldOffsets :
            /\ i <= reader.length + 3
            /\ CompletedFramePos(i) \in 1 .. Len(rx)
            /\ reader.data[i] = rx[CompletedFramePos(i)]

----------------------------------------------------------------------------
(* SpecBlocking: the blocking form.  A program constructs the driver and calls
   into_active, or (examples/passive_read.rs) into_passive followed by
   block!(read()); nb::block! polls again for as long as the call answers
   not-ready.  The transport never fails; it may answer would-block to any
   request, and the sensor's stream is one response per command. *)

Programs == {"into_active", "passive_read"}

(* declared lengths of the well-formed responses: 2 and 4 (short answers), 28
   (the measurement frame), 29 and 32 (the upper end of the valid range) *)
ResponseLengths == {2, 4, 28, 29, 32}

WellFormedResponses == {ValidFrame(L, "ramp") : L \in ResponseLengths}

(* streams that never contain a complete well-formed frame: nothing, bytes
   without a header, a frame cut short, a second magic byte that is wrong, a
   rejected length followed by a broken header, a checksum that is wrong *)
IllFormedStreams ==
    {<<>>, <<0, 1, 255, 77>>, <<66, 77, 0, 4, 1>>, <<66, 0, 0, 0, 0>>,
     <<66, 77, 0, 253, 66, 0>>, CorruptLast(ShortFrame)}

BlockingScenarios ==
    {[kind |-> "blocking", program |-> p, wellformed |-> TRUE, tail |-> a \o b] :
        p \in Programs, a \in WellFormedResponses, b \in WellFormedResponses}
    \cup
    {[kind |-> "blocking", program |-> p, wellformed |-> FALSE, tail |-> t] :
        p \in Programs, t \in IllFormedStreams}

InitBlocking ==
    /\ scenario \in BlockingScenarios
    /\ rx = scenario.tail
    /\ rx_pos = 0
    /\ tx = <<>>
    /\ mode = "UnInitialized"
    /\ command_writer = CommandWriterDefault
    /\ reader = SensorReaderDefault
    /\ overflow_checks \in BOOLEAN
    /\ last = NoCall
    /\ history = NoHistory
    /\ pc = "idle"

(* the transport served every request of the call just made *)
Served == last'.fault = "none"

NeverFails == last'.fault # "Err"

(* Pms700X::new(serial).into_active() *)
BlockingIntoActive ==
    /\ scenario.program = "into_active"
    /\ mode = "UnInitialized"
    /\ IntoActive
    /\ NeverFails

(* Pms700X::new(serial).into_passive(), examples/passive_read.rs:13 *)
BlockingIntoPassive ==
    /\ scenario.program = "passive_read"
    /\ mode = "UnInitialized"
    /\ IntoPassive
    /\ NeverFails

(* block!(pms.read()), examples/passive_read.rs:15 *)
BlockingRead ==
    /\ scenario.program = "passive_read"
    /\ ~(last.op = "read" /\ last.result = "Ok")
    /\ ReadPassive
    /\ NeverFails

NextBlocking == BlockingIntoActive \/ BlockingIntoPassive \/ BlockingRead

(* The loop of nb::block! never stops polling, and a transport that eventually
   serves each request serves, sooner or later, every request of one poll. *)
FairBlocking == WF_vars(NextBlocking /\ Served)

SpecBlocking == InitBlocking /\ [][NextBlocking]_vars /\ FairBlocking

(* the program's blocking calls have all reported completion *)
BlockingDone ==
    IF scenario.program = "into_active"
    THEN mode = "Active" /\ last.op = "into_active" /\ last.result = "Ok"
    ELSE mode = "Passive" /\ last.op = "read" /\ last.result = "Ok"

(* C19: polled by the blocking form over a transport that eventually serves
   every request and delivers a well-formed response to each command,
   into_active, into_passive and Passive read() eventually report completion,
   and the command slot is then None and the reader's cursor 0; over a stream
   that never contains a complete well-formed frame every poll answers
   not-ready. *)
C19_BlockingCompletes ==
    /\ <>(scenario.wellformed =>
            (BlockingDone /\ command_writer.command = "None" /\ reader.byte_offset = 0))
    /\ [](~scenario.wellformed => (last.op # "none" => last.result = "WouldBlock"))

====
